---------------------------- MODULE Spec2Model ----------------------------
(* A model of the configurable package (src/configurable.go): a registry  *)
(* of typed slots that are set from command-line flags, decoded files and  *)
(* environment variables.                                                  *)
(*                                                                         *)
(* Go strings that the code splits or parses are sequences of one-letter   *)
(* strings (<<"5","m">> is "5m"); names of slots, which the code only      *)
(* compares, are TLA+ strings. A float64 is a whole number of tenths       *)
(* (25 is 2.5) and a time.Duration a whole number of seconds.              *)
EXTENDS Integers, Sequences, FiniteSets, TLC

\* flags: c.flags, the slot of each name; env: the process environment;
\* cells: for each name the address of the cell c.flags[name] points to;
\* held: the handles the caller was given; commandLine: the names defined
\* in the flag package's process-wide flag set; last: the last operation
VARIABLES flags, env, cells, held, commandLine, last

vars == <<flags, env, cells, held, commandLine, last>>

(***************************************************************************)
(* Bounds                                                                  *)
(***************************************************************************)
\* the longest list a slot may reach: an operation that would make a list
\* longer is not taken
MaxListLen == 3

(***************************************************************************)
(* strings, strconv, time: the library functions the code calls            *)
(***************************************************************************)
Digits == {"0","1","2","3","4","5","6","7","8","9"}

DigitVal(c) ==
  CASE c = "0" -> 0 [] c = "1" -> 1 [] c = "2" -> 2 [] c = "3" -> 3
    [] c = "4" -> 4 [] c = "5" -> 5 [] c = "6" -> 6 [] c = "7" -> 7
    [] c = "8" -> 8 [] c = "9" -> 9

DigitChar(d) == <<"0","1","2","3","4","5","6","7","8","9">>[d + 1]

AllDigits(s) == \A i \in 1..Len(s) : s[i] \in Digits

RECURSIVE DigitsVal(_)
DigitsVal(s) ==
  IF s = <<>> THEN 0
  ELSE 10 * DigitsVal(SubSeq(s, 1, Len(s) - 1)) + DigitVal(s[Len(s)])

RECURSIVE NatStr(_)
NatStr(n) == IF n < 10 THEN <<DigitChar(n)>>
             ELSE NatStr(n \div 10) \o <<DigitChar(n % 10)>>

IndexOf(s, c) ==
  IF \E i \in 1..Len(s) : s[i] = c
  THEN CHOOSE i \in 1..Len(s) : s[i] = c /\ \A j \in 1..(i - 1) : s[j] # c
  ELSE 0

\* strings.Split(s, sep) with a one-letter separator: "" splits to [""]
RECURSIVE Split(_, _)
Split(s, sep) ==
  LET i == IndexOf(s, sep) IN
  IF i = 0 THEN <<s>>
  ELSE <<SubSeq(s, 1, i - 1)>> \o Split(SubSeq(s, i + 1, Len(s)), sep)

\* strings.SplitN(s, sep, 2): cut at the first separator, if there is one
SplitN2(s, sep) ==
  LET i == IndexOf(s, sep) IN
  IF i = 0 THEN <<s>>
  ELSE <<SubSeq(s, 1, i - 1), SubSeq(s, i + 1, Len(s))>>

\* the sign of a number's text and the text after it
Unsigned(s) == IF s # <<>> /\ s[1] \in {"+", "-"} THEN Tail(s) ELSE s
Signum(s) == IF s # <<>> /\ s[1] = "-" THEN -1 ELSE 1

\* strconv.Atoi / strconv.ParseInt(s, 10, 64): an optional sign and digits
Atoi(s) ==
  LET u == Unsigned(s) IN
  IF u # <<>> /\ AllDigits(u)
  THEN [ok |-> TRUE, num |-> Signum(s) * DigitsVal(u)]
  ELSE [ok |-> FALSE, num |-> 0]

\* strconv.ParseFloat(s, 64) on decimal text with at most one fraction
\* digit; the result is in tenths
ParseFloat(s) ==
  LET u == Unsigned(s)
      dot == IndexOf(u, ".")
      whole == IF dot = 0 THEN u ELSE SubSeq(u, 1, dot - 1)
      frac == IF dot = 0 THEN <<>> ELSE SubSeq(u, dot + 1, Len(u))
  IN IF /\ AllDigits(whole) /\ AllDigits(frac)
        /\ Len(whole) + Len(frac) > 0 /\ Len(frac) <= 1
     THEN [ok |-> TRUE,
           num |-> Signum(s) * (10 * DigitsVal(whole) + DigitsVal(frac))]
     ELSE [ok |-> FALSE, num |-> 0]

\* strconv.FormatFloat(v, 'f', -1, 64) of a number of tenths
FormatFloat(v) ==
  LET a == IF v < 0 THEN -v ELSE v
      sign == IF v < 0 THEN <<"-">> ELSE <<>>
  IN sign \o NatStr(a \div 10)
          \o (IF a % 10 = 0 THEN <<>> ELSE <<".", DigitChar(a % 10)>>)

\* strconv.ParseBool
ParseBool(s) ==
  IF s \in {<<"1">>, <<"t">>, <<"T">>, <<"t","r","u","e">>,
            <<"T","R","U","E">>, <<"T","r","u","e">>}
  THEN [ok |-> TRUE, bool |-> TRUE]
  ELSE IF s \in {<<"0">>, <<"f">>, <<"F">>, <<"f","a","l","s","e">>,
                 <<"F","A","L","S","E">>, <<"F","a","l","s","e">>}
  THEN [ok |-> TRUE, bool |-> FALSE]
  ELSE [ok |-> FALSE, bool |-> FALSE]

\* strconv.FormatBool
FormatBool(b) == IF b THEN <<"t","r","u","e">> ELSE <<"f","a","l","s","e">>

\* the length of the longest prefix of s made of digits
RECURSIVE DigitPrefix(_)
DigitPrefix(s) ==
  IF s # <<>> /\ s[1] \in Digits THEN 1 + DigitPrefix(Tail(s)) ELSE 0

\* time.ParseDuration on the units h, m and s: a sequence of
\* <digits><unit> groups; the results are seconds
RECURSIVE DurationGroups(_)
DurationGroups(s) ==
  IF s = <<>> THEN [ok |-> TRUE, num |-> 0]
  ELSE LET n == DigitPrefix(s) IN
       IF n = 0 \/ n = Len(s) \/ s[n + 1] \notin {"h", "m", "s"}
       THEN [ok |-> FALSE, num |-> 0]
       ELSE LET unit == CASE s[n + 1] = "h" -> 3600
                          [] s[n + 1] = "m" -> 60
                          [] s[n + 1] = "s" -> 1
                rest == DurationGroups(SubSeq(s, n + 2, Len(s)))
            IN IF rest.ok
               THEN [ok |-> TRUE,
                     num |-> DigitsVal(SubSeq(s, 1, n)) * unit + rest.num]
               ELSE [ok |-> FALSE, num |-> 0]

\* time.ParseDuration: an optional sign, then "0" alone or unit groups
ParseDuration(s) ==
  LET u == Unsigned(s) IN
  IF u = <<"0">> THEN [ok |-> TRUE, num |-> 0]
  ELSE IF u = <<>> THEN [ok |-> FALSE, num |-> 0]
  ELSE LET g == DurationGroups(u) IN
       IF g.ok THEN [ok |-> TRUE, num |-> Signum(s) * g.num]
       ELSE [ok |-> FALSE, num |-> 0]

(***************************************************************************)
(* Decoded values: what json.Unmarshal and yaml.Unmarshal put in an        *)
(* interface{}, and the string an environment variable or an INI key holds *)
(***************************************************************************)
EmptyMap == [x \in {} |-> <<>>]

Null == [k |-> "null", num |-> 0, str |-> <<>>, bool |-> FALSE,
         seq |-> <<>>, map |-> EmptyMap]
Num(n) == [Null EXCEPT !.k = "float64", !.num = n]   \* n tenths
YInt(n) == [Null EXCEPT !.k = "int", !.num = n]      \* yaml.v3 decodes 5 to int
Str(s) == [Null EXCEPT !.k = "string", !.str = s]
Bool(b) == [Null EXCEPT !.k = "bool", !.bool = b]
SeqV(items) == [Null EXCEPT !.k = "slice", !.seq = items]
MapV(m) == [Null EXCEPT !.k = "map", !.map = m]

MapPut(m, key, v) == [x \in DOMAIN m \cup {key} |-> IF x = key THEN v ELSE m[x]]

(***************************************************************************)
(* Type coercion (configurable.go, toInt .. toStringMap)                   *)
(***************************************************************************)
\* int(v) of a float64: truncation toward zero
Truncate(t) == IF t >= 0 THEN t \div 10 ELSE -((-t) \div 10)

toInt(value) ==
  CASE value.k = "float64" -> [ok |-> TRUE, num |-> Truncate(value.num)]
    [] value.k = "string" -> Atoi(value.str)
    [] OTHER -> [ok |-> FALSE, num |-> 0]

toInt64(value) ==
  CASE value.k = "float64" -> [ok |-> TRUE, num |-> Truncate(value.num)]
    [] value.k = "string" -> Atoi(value.str)
    [] OTHER -> [ok |-> FALSE, num |-> 0]

toFloat64(value) ==
  CASE value.k = "float64" -> [ok |-> TRUE, num |-> value.num]
    [] value.k = "string" -> ParseFloat(value.str)
    [] OTHER -> [ok |-> FALSE, num |-> 0]

toString(value) ==
  CASE value.k = "string" -> [ok |-> TRUE, str |-> value.str]
    [] value.k = "float64" -> [ok |-> TRUE, str |-> FormatFloat(value.num)]
    [] value.k = "bool" -> [ok |-> TRUE, str |-> FormatBool(value.bool)]
    [] OTHER -> [ok |-> FALSE, str |-> <<>>]

toBool(value) ==
  CASE value.k = "bool" -> [ok |-> TRUE, bool |-> value.bool]
    [] value.k = "string" -> ParseBool(value.str)
    [] OTHER -> [ok |-> FALSE, bool |-> FALSE]

toStringSlice(value) ==
  CASE value.k = "slice" ->
         IF \A i \in 1..Len(value.seq) : toString(value.seq[i]).ok
         THEN [ok |-> TRUE,
               list |-> [i \in 1..Len(value.seq) |-> toString(value.seq[i]).str]]
         ELSE [ok |-> FALSE, list |-> <<>>]
    [] value.k = "string" ->
         IF value.str = <<>> THEN [ok |-> TRUE, list |-> <<>>]
         ELSE [ok |-> TRUE, list |-> Split(value.str, ",")]
    [] OTHER -> [ok |-> FALSE, list |-> <<>>]

\* the pairs of a raw string, inserted one after the other into m; at the
\* first pair with no "=" the insertion stops: ok is FALSE and map is
\* what was inserted so far
RECURSIVE PutPairs(_, _)
PutPairs(m, pairs) ==
  IF pairs = <<>> THEN [ok |-> TRUE, map |-> m]
  ELSE LET kv == SplitN2(Head(pairs), "=") IN
       IF Len(kv) # 2 THEN [ok |-> FALSE, map |-> m]
       ELSE PutPairs(MapPut(m, kv[1], kv[2]), Tail(pairs))

toStringMap(value) ==
  CASE value.k = "map" ->
         IF \A key \in DOMAIN value.map : toString(value.map[key]).ok
         THEN [ok |-> TRUE,
               map |-> [key \in DOMAIN value.map |-> toString(value.map[key]).str]]
         ELSE [ok |-> FALSE, map |-> EmptyMap]
    [] value.k = "string" ->
         IF value.str = <<>> THEN [ok |-> TRUE, map |-> EmptyMap]
         ELSE LET r == PutPairs(EmptyMap, Split(value.str, ",")) IN
              IF r.ok THEN r ELSE [ok |-> FALSE, map |-> EmptyMap]
    [] OTHER -> [ok |-> FALSE, map |-> EmptyMap]

(***************************************************************************)
(* Slots: the cell a registered name points to                             *)
(***************************************************************************)
Types == {"int", "int64", "float64", "string", "bool", "duration", "list", "map"}

NoSlot == [typ |-> "none", num |-> 0, str |-> <<>>, bool |-> FALSE,
           list |-> <<>>, map |-> EmptyMap]

Registered(f, name) == f[name].typ # "none"

\* MapMerge with a fault: the new entries replace the mapping
MapMerge_replace(m, upd) == upd

\* m with every entry of upd inserted or overwritten
MapMerge(m, upd) ==
  [x \in DOMAIN m \cup DOMAIN upd |-> IF x \in DOMAIN upd THEN upd[x] ELSE m[x]]

Set(ok, slot) == [ok |-> ok, slot |-> slot]

\* The cases of setValue's type switch: each converts, returns the error
\* with the cell untouched, or assigns. [ok, slot]: slot is the cell
\* afterwards.
setInt(slot, value) ==
  LET r == toInt(value) IN
  IF ~r.ok THEN Set(FALSE, slot) ELSE Set(TRUE, [slot EXCEPT !.num = r.num])

setInt64(slot, value) ==
  LET r == toInt64(value) IN
  IF ~r.ok THEN Set(FALSE, slot) ELSE Set(TRUE, [slot EXCEPT !.num = r.num])

setFloat64(slot, value) ==
  LET r == toFloat64(value) IN
  IF ~r.ok THEN Set(FALSE, slot) ELSE Set(TRUE, [slot EXCEPT !.num = r.num])

setString(slot, value) ==
  LET r == toString(value) IN
  IF ~r.ok THEN Set(FALSE, slot) ELSE Set(TRUE, [slot EXCEPT !.str = r.str])

setBool(slot, value) ==
  LET r == toBool(value) IN
  IF ~r.ok THEN Set(FALSE, slot) ELSE Set(TRUE, [slot EXCEPT !.bool = r.bool])

setDuration(slot, value) ==
  LET r == toString(value) IN
  IF ~r.ok THEN Set(FALSE, slot)
  ELSE LET d == ParseDuration(r.str) IN
       IF ~d.ok THEN Set(FALSE, slot)
       ELSE Set(TRUE, [slot EXCEPT !.num = d.num])

\* setList with a fault: the converted items replace the list
setList_replace(slot, value) ==
  LET r == toStringSlice(value) IN
  IF ~r.ok THEN Set(FALSE, slot) ELSE Set(TRUE, [slot EXCEPT !.list = r.list])

setList(slot, value) ==
  LET r == toStringSlice(value) IN
  IF ~r.ok THEN Set(FALSE, slot)
  ELSE Set(TRUE, [slot EXCEPT !.list = slot.list \o r.list])

\* setMap with a fault: the pairs of a raw string are inserted one by one, as
\* MapFlag.Set does, so those before a malformed pair stay
setMap_partial(slot, value) ==
  IF value.k = "string" /\ value.str # <<>>
  THEN LET r == PutPairs(slot.map, Split(value.str, ",")) IN
       Set(r.ok, [slot EXCEPT !.map = r.map])
  ELSE LET r == toStringMap(value) IN
       IF ~r.ok THEN Set(FALSE, slot)
       ELSE Set(TRUE, [slot EXCEPT !.map = MapMerge(slot.map, r.map)])

setMap(slot, value) ==
  LET r == toStringMap(value) IN
  IF ~r.ok THEN Set(FALSE, slot)
  ELSE Set(TRUE, [slot EXCEPT !.map = MapMerge(slot.map, r.map)])

\* setValue(flagVal, value)
setValue(slot, value) ==
  CASE slot.typ = "int" -> setInt(slot, value)
    [] slot.typ = "int64" -> setInt64(slot, value)
    [] slot.typ = "float64" -> setFloat64(slot, value)
    [] slot.typ = "string" -> setString(slot, value)
    [] slot.typ = "bool" -> setBool(slot, value)
    [] slot.typ = "duration" -> setDuration(slot, value)
    [] slot.typ = "list" -> setList(slot, value)
    [] slot.typ = "map" -> setMap(slot, value)
    [] OTHER -> Set(FALSE, slot)

\* ListFlag.Set(value)
ListFlagSet(slot, raw) ==
  Set(TRUE, [slot EXCEPT !.list = slot.list \o Split(raw, ",")])

\* MapFlag.Set(value): the pairs before a malformed one stay inserted
MapFlagSet(slot, raw) ==
  LET r == PutPairs(slot.map, Split(raw, ",")) IN
  Set(r.ok, [slot EXCEPT !.map = r.map])

(***************************************************************************)
(* Inputs: the names, defaults, raw strings and files the operations are   *)
(* given                                                                   *)
(***************************************************************************)
\* p is registered with any of the eight types; q, the second key of a
\* file, is a bool slot or stays unregistered (an unknown key)
Names == {"p", "q"}

TypesOf(name) == IF name = "p" THEN Types ELSE {"bool"}

S_1 == <<"1">>
S_5m == <<"5", "m">>
S_kv == <<"k", "=", "v">>
S_kvbad == <<"k", "=", "v", ",", "b", "a", "d">>
S_empty == <<>>

RawStrings == {S_1, S_5m, S_kv, S_kvbad, S_empty}

\* the default each New<T> call of the model passes
DefaultSlot(typ) ==
  CASE typ = "int" -> [NoSlot EXCEPT !.typ = typ, !.num = 8]
    [] typ = "int64" -> [NoSlot EXCEPT !.typ = typ, !.num = 64]
    [] typ = "float64" -> [NoSlot EXCEPT !.typ = typ, !.num = 35]
    [] typ = "string" -> [NoSlot EXCEPT !.typ = typ, !.str = <<"d">>]
    [] typ = "bool" -> [NoSlot EXCEPT !.typ = typ, !.bool = FALSE]
    [] typ = "duration" -> [NoSlot EXCEPT !.typ = typ, !.num = 5]
    [] typ = "list" -> [NoSlot EXCEPT !.typ = typ, !.list = << <<"d">> >>]
    [] typ = "map" ->
         [NoSlot EXCEPT !.typ = typ, !.map = MapPut(EmptyMap, <<"d">>, <<"x">>)]

\* values of a JSON document
JsonValues ==
  {Str(r) : r \in RawStrings}
    \cup {Num(25), Num(0), Bool(TRUE), Null,
          SeqV(<<Str(<<"a">>)>>), SeqV(<<Num(25)>>), SeqV(<<Str(<<"a">>), Null>>),
          MapV(MapPut(EmptyMap, <<"k">>, Bool(TRUE))),
          MapV(MapPut(MapPut(EmptyMap, <<"k">>, Str(<<"v">>)), <<"d">>, Null))}

SecondValues == {Bool(TRUE), Null}

YamlValues == {YInt(5), Num(25), Str(S_1)}

One(key, v) == [x \in {key} |-> v]
Two(v, w) == [x \in {"p", "q"} |-> IF x = "p" THEN v ELSE w]

JsonData ==
  {EmptyMap} \cup {One("p", v) : v \in JsonValues}
    \cup {One("q", w) : w \in SecondValues}
    \cup {Two(v, w) : v \in JsonValues, w \in SecondValues}

YamlData == {One("p", v) : v \in YamlValues}

IniData == {One("p", Str(r)) : r \in RawStrings} \cup {Two(Str(S_1), Str(S_1))}

\* a file name and what os.ReadFile and the decoder make of it: name and
\* ext are the two parts of the file name, readable is whether os.ReadFile
\* returns its bytes, wellformed whether the decoder accepts them, data the
\* decoded document
File(name, ext, readable, wellformed, data) ==
  [name |-> name, ext |-> ext, readable |-> readable,
   wellformed |-> wellformed, data |-> data]

NoFile == File("", "", FALSE, FALSE, EmptyMap)

Files ==
  {File("config", ".json", TRUE, TRUE, d) : d \in JsonData}
    \cup {File("config", ".yaml", TRUE, TRUE, d) : d \in YamlData}
    \cup {File("config", ".ini", TRUE, TRUE, d) : d \in IniData}
    \cup {File("config", e, TRUE, FALSE, EmptyMap) : e \in {".json", ".yaml", ".ini"}}
    \cup {File("config", e, TRUE, TRUE, One("p", Num(25))) :
            e \in {".JSON", ".yml", ".txt", ""}}
    \cup {File("config", e, FALSE, FALSE, EmptyMap) : e \in {".json", ".txt"}}

\* the command lines flag.Parse is given: no flag, or one flag for p
CommandLines == {<<>>} \cup {<<[name |-> "p", raw |-> r]>> : r \in RawStrings}

\* the files Parse is given: none (the empty file name), or a JSON file
\* holding the key p
ParseFiles ==
  {NoFile} \cup {File("config", ".json", TRUE, TRUE, One("p", v)) : v \in JsonValues}

\* The inputs of the three restrictions of the machine that TLC explores
\* (SpecEnv, SpecLoad, SpecSet below): each keeps every operation it needs
\* and draws the inputs of the others from fewer values.
EnvNames == {"p"}

EnvFiles ==
  {File("config", ".json", TRUE, TRUE, d) :
     d \in {One("p", Null), One("p", Num(25)), One("p", Str(S_kvbad)),
            One("p", SeqV(<<Str(<<"a">>), Null>>)),
            One("p", MapV(MapPut(MapPut(EmptyMap, <<"k">>, Str(<<"v">>)), <<"d">>, Null))),
            Two(Num(25), Bool(TRUE))}}

EnvCommandLines == {<<>>, <<[name |-> "p", raw |-> S_1]>>}

LoadCommandLines == {<<>>, <<[name |-> "p", raw |-> S_1]>>,
                     <<[name |-> "p", raw |-> S_5m]>>}

LoadParseFiles ==
  {NoFile} \cup {File("config", ".json", TRUE, TRUE, One("p", v)) :
                   v \in {Num(25), Str(S_5m), Null}}

\* the names other code may define in the process-wide flag set: q (a
\* second registry's) and v; the command lines of the model name only p
OtherFlags == {"q", "v"}

\* files that hold a value for the mapping slot p
MapFiles ==
  {File("config", ".json", TRUE, TRUE, One("p", v)) :
     v \in {Str(S_kv), Str(S_kvbad), Str(S_empty), Num(25),
            MapV(MapPut(EmptyMap, <<"k">>, Bool(TRUE))),
            MapV(MapPut(MapPut(EmptyMap, <<"k">>, Str(<<"v">>)), <<"d">>, Null))}}
    \cup {File("config", ".ini", TRUE, TRUE, One("p", Str(S_kv)))}

(***************************************************************************)
(* The registry's operations as functions of the state                     *)
(***************************************************************************)
NoEnv == [set |-> FALSE, val |-> <<>>]

\* checkAndSetFromEnv with a fault: os.Getenv in place of os.LookupEnv, so
\* that an unset variable reads as ""
checkAndSetFromEnv_getenv(f, e, name) ==
  IF Registered(f, name)
  THEN [f EXCEPT ![name] = setValue(f[name], Str(e[name].val)).slot]
  ELSE f

\* checkAndSetFromEnv(name): setValue's error is dropped
checkAndSetFromEnv(f, e, name) ==
  IF e[name].set /\ Registered(f, name)
  THEN [f EXCEPT ![name] = setValue(f[name], Str(e[name].val)).slot]
  ELSE f

\* Handle with a fault: the cell of any registered name, whatever its type
Handle_anyType(f, name, typ) == IF Registered(f, name) THEN name ELSE "nil"

\* the c.flags[name].(*T) assertion of the getters: the cell or nil
Handle(f, name, typ) == IF f[name].typ = typ THEN name ELSE "nil"

Outcome(f, err, key) == [flags |-> f, err |-> err, key |-> key]

\* ApplyKeys with a fault: a key that is not registered is an error
RECURSIVE ApplyKeys_strict(_, _, _)
ApplyKeys_strict(f, data, order) ==
  IF order = <<>> THEN Outcome(f, "none", "")
  ELSE LET key == Head(order) IN
       IF ~Registered(f, key) THEN Outcome(f, "coercion", key)
       ELSE LET r == setValue(f[key], data[key]) IN
            IF ~r.ok THEN Outcome(f, "coercion", key)
            ELSE ApplyKeys_strict([f EXCEPT ![key] = r.slot], data, Tail(order))

\* the loop of setValuesFromMap over the keys in the order given: it
\* returns at the first key whose value cannot be set
RECURSIVE ApplyKeys(_, _, _)
ApplyKeys(f, data, order) ==
  IF order = <<>> THEN Outcome(f, "none", "")
  ELSE LET key == Head(order) IN
       IF Registered(f, key)
       THEN LET r == setValue(f[key], data[key]) IN
            IF ~r.ok THEN Outcome(f, "coercion", key)
            ELSE ApplyKeys([f EXCEPT ![key] = r.slot], data, Tail(order))
       ELSE ApplyKeys(f, data, Tail(order))

\* the orders in which a range over a Go map with these keys may visit them
Orders(keys) ==
  {o \in [1..Cardinality(keys) -> keys] :
     \A i, j \in 1..Cardinality(keys) : i # j => o[i] # o[j]}

\* setValuesFromMap(data): one outcome for each order of the range
setValuesFromMap(f, data) == {ApplyKeys(f, data, o) : o \in Orders(DOMAIN data)}

loadJSON(f, file) ==
  IF ~file.wellformed THEN {Outcome(f, "decode", "")}
  ELSE setValuesFromMap(f, file.data)

loadYAML(f, file) ==
  IF ~file.wellformed THEN {Outcome(f, "decode", "")}
  ELSE setValuesFromMap(f, file.data)

\* loadINI: the registered keys whose value in the file is not ""
loadINI(f, file) ==
  IF ~file.wellformed THEN {Outcome(f, "decode", "")}
  ELSE LET keys == {key \in DOMAIN file.data :
                      Registered(f, key) /\ file.data[key].str # <<>>}
       IN setValuesFromMap(f, [key \in keys |-> file.data[key]])

\* strings.ToLower on the extensions of the model
ToLower(ext) == IF ext = ".JSON" THEN ".json" ELSE ext

\* LoadFile(filename): the outcomes it may have
LoadFile(f, file) ==
  IF ~file.readable THEN {Outcome(f, "io", "")}
  ELSE LET ext == ToLower(file.ext) IN
       CASE ext = ".json" -> loadJSON(f, file)
         [] ext \in {".yaml", ".yml"} -> loadYAML(f, file)
         [] ext = ".ini" -> loadINI(f, file)
         [] OTHER -> {Outcome(f, "unsupported", "")}

\* what flag.Parse does with one -name=raw argument: the Set method of the
\* flag's value (the flag package's for a scalar, ListFlag's or MapFlag's)
FlagValueSet(slot, raw) ==
  IF slot.typ = "list" THEN ListFlagSet(slot, raw)
  ELSE IF slot.typ = "map" THEN MapFlagSet(slot, raw)
  ELSE setValue(slot, Str(raw))

\* flag.Parse() on a command line: ok is FALSE when the flag package would
\* end the process (an undefined flag, a value its Set rejects)
RECURSIVE flagParse(_, _)
flagParse(f, cmd) ==
  IF cmd = <<>> THEN [ok |-> TRUE, flags |-> f]
  ELSE LET arg == Head(cmd) IN
       IF ~Registered(f, arg.name) THEN [ok |-> FALSE, flags |-> f]
       ELSE LET r == FlagValueSet(f[arg.name], arg.raw) IN
            IF ~r.ok THEN [ok |-> FALSE, flags |-> f]
            ELSE flagParse([f EXCEPT ![arg.name] = r.slot], Tail(cmd))

\* Parse with a fault: the file is loaded first, the flags parsed after it
Parse_fileFirst(f, file, cmd) ==
  IF file.name \o file.ext # "" 
  THEN {Outcome(flagParse(out.flags, cmd).flags, out.err, out.key) :
          out \in LoadFile(f, file)}
  ELSE {Outcome(flagParse(f, cmd).flags, "none", "")}

\* Parse with a fault: the file is loaded also when its name is empty
Parse_alwaysLoad(f, file, cmd) == LoadFile(flagParse(f, cmd).flags, file)

\* Parse(filename): flag.Parse(), then LoadFile unless the name is empty
Parse(f, file, cmd) ==
  LET parsed == flagParse(f, cmd).flags IN
  IF file.name \o file.ext # "" THEN LoadFile(parsed, file)
  ELSE {Outcome(parsed, "none", "")}

\* Cells: NilPtr is the nil pointer, an address is a positive number
NilPtr == 0

\* the address of a newly allocated cell (flag.Int's new(int), &value)
NewCell(c) ==
  1 + (CHOOSE a \in {c[name] : name \in DOMAIN c} :
         \A name \in DOMAIN c : c[name] <= a)

\* ValuesPtr with a fault: Set allocates a new cell on every call
ValuesPtr_always(c, name) == NewCell(c)

\* the head of ListFlag.Set and MapFlag.Set: values is given a new cell
\* only when it is nil
ValuesPtr(c, name) == IF c[name] = NilPtr THEN NewCell(c) ELSE c[name]

\* a handle: the pointer a New<T> or a getter returned
Ptr(name, typ, addr) == [name |-> name, typ |-> typ, addr |-> addr]

\* the names defined in the flag set in the order flag.VisitAll visits them
SortedFlagNames == <<"p", "q", "v">>

\* Usage(): one entry for every flag of the process-wide flag set
Usage(defined) == SelectSeq(SortedFlagNames, LAMBDA name : name \in defined)

(***************************************************************************)
(* The state machine                                                       *)
(***************************************************************************)
\* last: the operation that made the last step, its arguments and result
Op(op, name, typ, raw, file, cmd, err, key, ret) ==
  [op |-> op, name |-> name, typ |-> typ, raw |-> raw, file |-> file,
   cmd |-> cmd, err |-> err, key |-> key, ret |-> ret, listing |-> <<>>]

ListsFit(f) == \A name \in Names : Len(f[name].list) <= MaxListLen

\* the names a command line gives a value
ArgNames(cmd) == {cmd[i].name : i \in DOMAIN cmd}

Init ==
  /\ flags = [name \in Names |-> NoSlot]
  /\ env = [name \in Names |-> NoEnv]
  /\ cells = [name \in Names |-> NilPtr]
  /\ held = {}
  /\ commandLine = {}
  /\ last = Op("New", "", "", <<>>, NoFile, <<>>, "none", "", "nil")

\* Register with a fault: the slot is stored without defining its flag
Register_noFlag(name, typ) ==
  /\ ~Registered(flags, name)
  /\ name \notin commandLine
  /\ flags' = [flags EXCEPT ![name] = DefaultSlot(typ)]
  /\ cells' = [cells EXCEPT ![name] = NewCell(cells)]
  /\ held' = held \cup {Ptr(name, typ, NewCell(cells))}
  /\ last' = Op("Register", name, typ, <<>>, NoFile, <<>>, "none", "", name)
  /\ UNCHANGED <<env, commandLine>>

\* NewInt .. NewMap(name, default, usage): the flag is defined in the flag
\* set, its cell stored under the name and returned; a name is defined
\* once (the flag package panics on a second definition)
Register(name, typ) ==
  /\ ~Registered(flags, name)
  /\ name \notin commandLine
  /\ flags' = [flags EXCEPT ![name] = DefaultSlot(typ)]
  /\ cells' = [cells EXCEPT ![name] = NewCell(cells)]
  /\ held' = held \cup {Ptr(name, typ, NewCell(cells))}
  /\ commandLine' = commandLine \cup {name}
  /\ last' = Op("Register", name, typ, <<>>, NoFile, <<>>, "none", "", name)
  /\ UNCHANGED env

\* a flag defined in the process-wide flag set by other code (another
\* registry, a package's own flag)
DefineFlag(name) ==
  /\ name \notin commandLine
  /\ commandLine' = commandLine \cup {name}
  /\ last' = Op("DefineFlag", name, "", <<>>, NoFile, <<>>, "none", "", "nil")
  /\ UNCHANGED <<flags, env, cells, held>>

\* the environment: os.Setenv and os.Unsetenv outside the registry
Setenv(name, raw) ==
  /\ env' = [env EXCEPT ![name] = [set |-> TRUE, val |-> raw]]
  /\ last' = Op("Setenv", name, "", raw, NoFile, <<>>, "none", "", "nil")
  /\ UNCHANGED <<flags, cells, held, commandLine>>

Unsetenv(name) ==
  /\ env[name].set
  /\ env' = [env EXCEPT ![name] = NoEnv]
  /\ last' = Op("Unsetenv", name, "", <<>>, NoFile, <<>>, "none", "", "nil")
  /\ UNCHANGED <<flags, cells, held, commandLine>>

\* Int .. Map(name): the getters
Get(name, typ) ==
  /\ flags' = checkAndSetFromEnv(flags, env, name)
  /\ ListsFit(flags')
  /\ last' = Op("Get", name, typ, <<>>, NoFile, <<>>, "none", "",
                Handle(flags', name, typ))
  /\ held' = IF Handle(flags', name, typ) = "nil" THEN held
             ELSE held \cup {Ptr(name, typ, cells[name])}
  /\ UNCHANGED <<env, cells, commandLine>>

DoLoadFile(file) ==
  \E out \in LoadFile(flags, file) :
    /\ ListsFit(out.flags)
    /\ flags' = out.flags
    /\ last' = Op("LoadFile", "", "", <<>>, file, <<>>, out.err, out.key, "nil")
    /\ UNCHANGED <<env, cells, held, commandLine>>

DoParse(file, cmd) ==
  /\ flagParse(flags, cmd).ok
  /\ \E out \in Parse(flags, file, cmd) :
       /\ ListsFit(out.flags)
       /\ flags' = out.flags
       /\ last' = Op("Parse", "", "", <<>>, file, cmd, out.err, out.key, "nil")
  /\ cells' = [name \in Names |->
                IF name \in ArgNames(cmd) /\ flags[name].typ \in {"list", "map"}
                THEN ValuesPtr(cells, name) ELSE cells[name]]
  /\ UNCHANGED <<env, held, commandLine>>

\* ListFlag.Set and MapFlag.Set called on a registered flag value, as
\* flag.Set(name, raw) does
DoListSet(name, raw) ==
  /\ flags[name].typ = "list"
  /\ LET r == ListFlagSet(flags[name], raw) IN
       /\ flags' = [flags EXCEPT ![name] = r.slot]
       /\ last' = Op("ListSet", name, "list", raw, NoFile, <<>>, "none", "", "nil")
  /\ ListsFit(flags')
  /\ cells' = [cells EXCEPT ![name] = ValuesPtr(cells, name)]
  /\ UNCHANGED <<env, held, commandLine>>

DoMapSet(name, raw) ==
  /\ flags[name].typ = "map"
  /\ LET r == MapFlagSet(flags[name], raw) IN
       /\ flags' = [flags EXCEPT ![name] = r.slot]
       /\ last' = Op("MapSet", name, "map", raw, NoFile, <<>>,
                     IF r.ok THEN "none" ELSE "format", "", "nil")
  /\ cells' = [cells EXCEPT ![name] = ValuesPtr(cells, name)]
  /\ UNCHANGED <<env, held, commandLine>>

\* Usage()
DoUsage ==
  /\ last' = [Op("Usage", "", "", <<>>, NoFile, <<>>, "none", "", "nil")
                EXCEPT !.listing = Usage(commandLine)]
  /\ UNCHANGED <<flags, env, cells, held, commandLine>>

\* every operation on every input of the model
Next ==
  \/ \E name \in Names : \E typ \in TypesOf(name) : Register(name, typ)
  \/ \E name \in OtherFlags : DefineFlag(name)
  \/ \E name \in Names : \E raw \in RawStrings : Setenv(name, raw)
  \/ \E name \in Names : Unsetenv(name)
  \/ \E name \in Names : \E typ \in Types : Get(name, typ)
  \/ \E file \in Files : DoLoadFile(file)
  \/ \E file \in ParseFiles : \E cmd \in CommandLines : DoParse(file, cmd)
  \/ \E name \in Names : \E raw \in RawStrings : DoListSet(name, raw)
  \/ \E name \in Names : \E raw \in RawStrings : DoMapSet(name, raw)
  \/ DoUsage

Spec == Init /\ [][Next]_vars

\* the environment and the getters, with a few files and command lines
NextEnv ==
  \/ \E name \in Names : \E typ \in TypesOf(name) : Register(name, typ)
  \/ \E name \in EnvNames : \E raw \in RawStrings : Setenv(name, raw)
  \/ \E name \in EnvNames : Unsetenv(name)
  \/ \E name \in Names : \E typ \in Types : Get(name, typ)
  \/ \E file \in EnvFiles : DoLoadFile(file)
  \/ \E cmd \in EnvCommandLines : DoParse(NoFile, cmd)

SpecEnv == Init /\ [][NextEnv]_vars

\* the file loader on every file, with no environment variable set
NextLoad ==
  \/ \E name \in Names : \E typ \in TypesOf(name) : Register(name, typ)
  \/ \E name \in Names : \E typ \in {flags[name].typ} \cap Types : Get(name, typ)
  \/ \E file \in Files : DoLoadFile(file)
  \/ \E file \in LoadParseFiles : \E cmd \in LoadCommandLines : DoParse(file, cmd)

SpecLoad == Init /\ [][NextLoad]_vars

\* the Set methods of the list and map flag values
NextSet ==
  \/ \E name \in Names : \E typ \in TypesOf(name) : Register(name, typ)
  \/ \E name \in Names : \E typ \in {flags[name].typ} \cap Types : Get(name, typ)
  \/ \E name \in Names : \E raw \in RawStrings : DoListSet(name, raw)
  \/ \E name \in Names : \E raw \in RawStrings : DoMapSet(name, raw)

SpecSet == Init /\ [][NextSet]_vars

\* the usage listing, with flags defined by other code, gets and a few loads
NextUsage ==
  \/ \E name \in Names : \E typ \in TypesOf(name) : Register(name, typ)
  \/ \E name \in OtherFlags : DefineFlag(name)
  \/ \E name \in Names : \E typ \in {flags[name].typ} \cap Types : Get(name, typ)
  \/ \E file \in EnvFiles : DoLoadFile(file)
  \/ DoUsage

SpecUsage == Init /\ [][NextUsage]_vars

\* a mapping slot set from files, the environment and flags
NextMap ==
  \/ \E name \in Names : \E typ \in TypesOf(name) \cap {"map", "bool"} :
        Register(name, typ)
  \/ \E name \in EnvNames : \E raw \in RawStrings : Setenv(name, raw)
  \/ \E name \in EnvNames : Unsetenv(name)
  \/ \E name \in Names : \E typ \in {flags[name].typ} \cap Types : Get(name, typ)
  \/ \E file \in MapFiles : DoLoadFile(file)
  \/ \E cmd \in CommandLines : DoParse(NoFile, cmd)
  \/ \E name \in Names : \E raw \in RawStrings : DoMapSet(name, raw)

SpecMap == Init /\ [][NextMap]_vars

(***************************************************************************)
(* Properties                                                              *)
(***************************************************************************)
\* whether a raw string parses as a value of the type, and the slot that
\* holds exactly the parsed value
HasEquals(token) == \E i \in 1..Len(token) : token[i] = "="

EnvParses(typ, raw) ==
  CASE typ \in {"int", "int64"} -> Atoi(raw).ok
    [] typ = "float64" -> ParseFloat(raw).ok
    [] typ = "bool" -> ParseBool(raw).ok
    [] typ = "duration" -> ParseDuration(raw).ok
    [] typ = "map" ->
         raw = <<>> \/ \A i \in 1..Len(Split(raw, ",")) : HasEquals(Split(raw, ",")[i])
    [] OTHER -> TRUE

EnvParsed(typ, raw) ==
  CASE typ \in {"int", "int64"} -> [NoSlot EXCEPT !.typ = typ, !.num = Atoi(raw).num]
    [] typ = "float64" -> [NoSlot EXCEPT !.typ = typ, !.num = ParseFloat(raw).num]
    [] typ = "string" -> [NoSlot EXCEPT !.typ = typ, !.str = raw]
    [] typ = "bool" -> [NoSlot EXCEPT !.typ = typ, !.bool = ParseBool(raw).bool]
    [] typ = "duration" -> [NoSlot EXCEPT !.typ = typ, !.num = ParseDuration(raw).num]
    [] typ = "list" ->
         [NoSlot EXCEPT !.typ = typ,
                        !.list = IF raw = <<>> THEN <<>> ELSE Split(raw, ",")]
    [] typ = "map" ->
         [NoSlot EXCEPT !.typ = typ,
                        !.map = IF raw = <<>> THEN EmptyMap
                                ELSE PutPairs(EmptyMap, Split(raw, ",")).map]

SupportedExt(file) == ToLower(file.ext) \in {".json", ".yaml", ".yml", ".ini"}

\* the file was read and decoded, so that its keys were handed to
\* setValuesFromMap
Decoded(file) == file.readable /\ file.wellformed /\ SupportedExt(file)

\* the keys the loader hands to setValuesFromMap: all of a JSON or YAML
\* document, those of an INI file whose value is not empty
Supplies(file, key) ==
  /\ Decoded(file)
  /\ key \in DOMAIN file.data
  /\ ToLower(file.ext) = ".ini" => file.data[key].str # <<>>

RegisteredNames(f) == {name \in Names : Registered(f, name)}

\* C1: register<T>(name, default, usage) followed immediately by
\* get<T>(name), with no environment variable named name set, returns the
\* handle of the slot, and the slot holds the default.
C1_RegisterThenGet ==
  [][(/\ last.op = "Register"
      /\ last'.op = "Get" /\ last'.name = last.name /\ last'.typ = last.typ
      /\ ~env[last.name].set)
     => (/\ last'.ret = last.name
         /\ flags'[last.name] = DefaultSlot(last.typ))]_vars

C1_Witness ==
  /\ last.op = "Get" /\ last.ret = "p" /\ last.typ = "list"
  /\ ~env["p"].set
  /\ flags["p"] = DefaultSlot("list")

\* C2: when the environment variable named like a registered slot holds a
\* value that parses as the slot's type T, get<T>(name) returns exactly
\* the parsed value, whatever the slot held before.
C2_EnvOverrides ==
  (/\ last.op = "Get" /\ last.ret # "nil"
   /\ env[last.name].set
   /\ EnvParses(last.typ, env[last.name].val))
  => flags[last.name] = EnvParsed(last.typ, env[last.name].val)

\* C3: a failed coercion changes nothing: a get whose environment variable
\* does not parse as the slot's type leaves every slot as it was and
\* returns the handle with no error, and the slot of the key that a load
\* reports as failing holds what it held before the load.
C3_FailedCoercionKeepsSlot ==
  [][/\ (/\ last'.op = "Get"
         /\ env[last'.name].set
         /\ Registered(flags, last'.name)
         /\ ~EnvParses(flags[last'.name].typ, env[last'.name].val))
        => (/\ flags' = flags
            /\ last'.err = "none"
            /\ last'.typ = flags[last'.name].typ => last'.ret = last'.name)
     /\ (last'.op = "LoadFile" /\ last'.err = "coercion")
        => flags'[last'.key] = flags[last'.key]]_vars

C3_Witness ==
  /\ last.op = "Get" /\ last.name = "p" /\ last.typ = "map" /\ last.ret = "p"
  /\ env["p"].set /\ env["p"].val = S_kvbad
  /\ flags["p"].typ = "map"

\* C4: LoadFile on a file name whose extension is none of .json, .yaml,
\* .yml, .ini fails with the unsupported-extension error, whether or not
\* the file can be read, and leaves every slot unchanged.
C4_UnsupportedExtension ==
  [][(last'.op = "LoadFile" /\ ~SupportedExt(last'.file))
     => (last'.err = "unsupported" /\ flags' = flags)]_vars

\* C5: a successful load that supplies a sequence for a list slot appends
\* the sequence's items, in order, to what the list held: after any
\* sequence of such loads the list is its default followed by the items of
\* every loaded sequence in load order.
C5_ListLoadsAccumulate ==
  [][(/\ last'.op = "LoadFile" /\ last'.err = "none"
      /\ Supplies(last'.file, "p")
      /\ last'.file.data["p"].k = "slice"
      /\ flags["p"].typ = "list")
     => flags'["p"].list =
          flags["p"].list
            \o [i \in 1..Len(last'.file.data["p"].seq) |->
                  toString(last'.file.data["p"].seq[i]).str]]_vars

C5_Witness ==
  /\ last.op = "LoadFile" /\ last.err = "none"
  /\ Supplies(last.file, "p") /\ last.file.data["p"].k = "slice"
  /\ flags["p"].typ = "list"
  /\ flags["p"].list = << <<"d">>, <<"a">>, <<"2", ".", "5">> >>

\* C6: MapFlag.Set(raw): when every comma-separated token holds an "=",
\* each pair is inserted and there is no error; when a token holds none,
\* the set fails with a format error and the mapping is as before the
\* call, also when valid pairs precede the malformed token.
C6_MapSetAllOrNothing ==
  [][(last'.op = "MapSet")
     => IF \A i \in 1..Len(Split(last'.raw, ",")) :
               HasEquals(Split(last'.raw, ",")[i])
        THEN /\ last'.err = "none"
             /\ flags'[last'.name].map =
                  PutPairs(flags[last'.name].map, Split(last'.raw, ",")).map
        ELSE /\ last'.err = "format"
             /\ flags' = flags]_vars

\* C7: loading a value into a duration slot: a string in magnitude+unit
\* syntax sets the slot to that duration; every number (0 too) and every
\* boolean fails with an error and leaves the slot unchanged.
C7_DurationOnlyFromString ==
  [][(/\ last'.op = "LoadFile"
      /\ Supplies(last'.file, "p") /\ DOMAIN last'.file.data = {"p"}
      /\ flags["p"].typ = "duration")
     => LET v == last'.file.data["p"] IN
        /\ (v.k = "string" /\ DurationGroups(v.str).ok /\ v.str # <<>>)
           => (last'.err = "none"
               /\ flags'["p"].num = DurationGroups(v.str).num)
        /\ v.k \in {"float64", "int", "bool"}
           => (last'.err = "coercion" /\ flags' = flags)]_vars

\* whether the loader can set the slot from the value
Coerces(slot, v) == setValue(slot, v).ok

\* C8: a coercion error on one key does not halt the load: when the load
\* returns its error, every other registered key of the file whose value
\* coerces has been applied to its slot.
C8_ErrorDoesNotHaltLoad ==
  [][(last'.op = "LoadFile" /\ last'.err = "coercion")
     => \A key \in DOMAIN last'.file.data \ {last'.key} :
          (/\ Supplies(last'.file, key)
           /\ Registered(flags, key)
           /\ Coerces(flags[key], last'.file.data[key]))
          => flags'[key] = setValue(flags[key], last'.file.data[key]).slot]_vars

ScalarTypes == {"int", "int64", "float64", "string", "bool", "duration"}

C10_UnknownKeysIgnored ==
  [][(last'.op = "LoadFile" /\ Decoded(last'.file))
     => /\ (\A key \in DOMAIN last'.file.data : ~Registered(flags, key))
           => (last'.err = "none" /\ flags' = flags)
        /\ RegisteredNames(flags') = RegisteredNames(flags)
        /\ last'.err = "coercion" => Registered(flags, last'.key)]_vars

C10_Witness ==
  /\ last.op = "LoadFile" /\ last.err = "none" /\ Decoded(last.file)
  /\ DOMAIN last.file.data = {"p", "q"}
  /\ Registered(flags, "p") /\ ~Registered(flags, "q")
  /\ flags["p"] # DefaultSlot(flags["p"].typ)

\* C11: get<T>(name) returns a handle when a slot named name of type T is
\* registered, and nil when no slot named name is registered or the slot
\* of that name has another type.
C11_GetAbsentOrHandle ==
  [][(last'.op = "Get")
     => IF Registered(flags, last'.name) /\ flags[last'.name].typ = last'.typ
        THEN last'.ret # "nil"
        ELSE last'.ret = "nil"]_vars

C11_Witness ==
  /\ last.op = "Get" /\ last.ret = "nil"
  /\ flags[last.name].typ = "int64" /\ last.typ = "duration"

\* C12: Parse with the empty file name only parses the command line: it
\* returns no error, the slots are those flag.Parse() leaves (no file is
\* loaded), and every slot the command line does not name is unchanged.
C12_ParseWithoutFile ==
  [][(last'.op = "Parse" /\ last'.file = NoFile)
     => /\ last'.err = "none"
        /\ flags' = flagParse(flags, last'.cmd).flags
        /\ \A name \in Names \ ArgNames(last'.cmd) : flags'[name] = flags[name]]_vars

C12_Witness ==
  /\ last.op = "Parse" /\ last.file = NoFile /\ last.err = "none"
  /\ last.cmd = <<[name |-> "p", raw |-> S_1]>>
  /\ flags["p"].typ = "int" /\ flags["p"].num = 1
  /\ flags["q"].typ = "bool" /\ flags["q"].bool

\* C13: handles are live and shared: every handle the caller was given, by
\* a register or by a get, points to the cell that c.flags holds for its
\* name, whatever flag parses, loads and environment overrides happened
\* since; what they write is therefore read through every handle.
C13_HandlesShareTheCell ==
  \A h \in held : flags[h.name].typ = h.typ /\ cells[h.name] = h.addr

C13_Witness ==
  /\ last.op = "Get" /\ last.name = "p" /\ last.ret = "p" /\ env["p"].set
  /\ flags["p"].typ = "list"
  /\ flags["p"].list = << <<"d">>, <<"1">>, <<"5", "m">> >>
  /\ Ptr("p", "list", cells["p"]) \in held

\* C14: the usage listing holds the name of every slot registered in the
\* registry exactly once, whatever loads and gets happened before.
C14_UsageListsEverySlotOnce ==
  (last.op = "Usage")
  => \A name \in RegisteredNames(flags) :
       Cardinality({i \in DOMAIN last.listing : last.listing[i] = name}) = 1

C14_Witness ==
  /\ last.op = "Usage" /\ last.listing = <<"p", "q", "v">>
  /\ RegisteredNames(flags) = {"p", "q"}
  /\ flags["p"] # DefaultSlot(flags["p"].typ)

\* after is before with every entry of input inserted or overwritten and
\* every other entry kept
Merged(before, input, after) ==
  /\ DOMAIN after = DOMAIN before \cup DOMAIN input
  /\ \A key \in DOMAIN input : after[key] = input[key]
  /\ \A key \in DOMAIN before \ DOMAIN input : after[key] = before[key]

\* C15: a value coerced into a mapping slot, from a file, an environment
\* variable or a flag, is merged: every key of the input is inserted or
\* overwritten with the input's value, every other key of the mapping
\* keeps its value.
C15_MapCoercionMerges ==
  [][/\ (/\ last'.op = "LoadFile" /\ last'.err = "none"
         /\ Supplies(last'.file, "p") /\ flags["p"].typ = "map")
        => Merged(flags["p"].map, toStringMap(last'.file.data["p"]).map,
                  flags'["p"].map)
     /\ (/\ last'.op = "Get" /\ last'.name = "p" /\ env["p"].set
         /\ flags["p"].typ = "map" /\ EnvParses("map", env["p"].val))
        => Merged(flags["p"].map, EnvParsed("map", env["p"].val).map,
                  flags'["p"].map)
     /\ (last'.op = "MapSet" /\ last'.name = "p" /\ last'.err = "none")
        => Merged(flags["p"].map, PutPairs(EmptyMap, Split(last'.raw, ",")).map,
                  flags'["p"].map)
     /\ (/\ last'.op = "Parse" /\ "p" \in ArgNames(last'.cmd)
         /\ flags["p"].typ = "map")
        => Merged(flags["p"].map,
                  PutPairs(EmptyMap, Split(last'.cmd[1].raw, ",")).map,
                  flags'["p"].map)]_vars

C15_Witness ==
  /\ last.op = "LoadFile" /\ last.err = "none"
  /\ Supplies(last.file, "p") /\ last.file.data["p"].k = "map"
  /\ flags["p"].typ = "map"
  /\ flags["p"].map =
       MapPut(MapPut(EmptyMap, <<"d">>, <<"x">>), <<"k">>, <<"t", "r", "u", "e">>)

\* C16: reading is idempotent: a get that follows a get of the same name
\* and type that returned a handle, with the environment unchanged and no
\* flag parse or load in between, leaves the slot's value as it was.
C16_ReadIdempotent ==
  [][(/\ last.op = "Get" /\ last'.op = "Get"
      /\ last'.name = last.name /\ last'.typ = last.typ
      /\ last.ret # "nil")
     => flags'[last.name] = flags[last.name]]_vars

\* C17: the outcome of a file load is the same for every order in which
\* the keys of the decoded map are visited: the slots and the error, with
\* the key it names.
C17_LoadDeterministic ==
  \A file \in Files : Cardinality(LoadFile(flags, file)) = 1

\* C18: a get that returns nil, the name being unregistered or registered
\* with another type, changes no slot, also when an environment variable
\* of that name is set.
C18_AbsentGetChangesNothing ==
  [][(last'.op = "Get" /\ last'.ret = "nil") => flags' = flags]_vars

=============================================================================
